---- MODULE Spec2Model ----
(***************************************************************************)
(* TextEmbed (toot/tui/widgets.py): a text widget that embeds other        *)
(* widgets inline.  _format replaces every replacement field of the        *)
(* template by a placeholder "\0\1\1..." as wide as the widget, render     *)
(* lets urwid lay the substituted text out and then rebuilds every line    *)
(* that holds a placeholder from text runs and widget canvases (_embed),   *)
(* carrying a "tail" when a placeholder was wrapped over a line end.       *)
(*                                                                         *)
(* Strings are sequences of one-character strings.  "H" stands for the     *)
(* head byte "\0", "C" for the continuation byte "\1", "N" for a line      *)
(* feed.  Each of them is one display column wide.                         *)
(***************************************************************************)
EXTENDS Integers, Sequences, FiniteSets, TLC

VARIABLES
    alive,      \* the constructor has returned an object
    _text,      \* self._text: the template as passed in
    w_text,     \* self._w (urwid.Text): its text, the substituted template
    _widgets,   \* self._widgets: the embedding records (maxcols, widget)
    align,      \* self._w's alignment
    wrap,       \* self._w's wrap mode
    fmt_call,   \* the last constructor / set_text call and what it raised:
                \* [op, text, nargs, err]
    err,        \* what the last call raised: [type, field]
    pc,         \* where render is: idle, for, while, done, raised
    size,       \* render's size[0], the number of columns
    lines,      \* text_canv.text decoded, all of it
    li,         \* how many lines the generator `text` has handed out
    wit,        \* widgets_iter: index of the next record it yields
    top,        \* render's local top
    n_lines,    \* render's local n_lines
    tail,       \* render's local tail: None or (cols, canvas)
    canvases,   \* render's local canvases
    rendered    \* the widget.render calls made by _embed during this render

vars == <<alive, _text, w_text, _widgets, align, wrap, fmt_call, err,
          pc, size, lines, li, wit, top, n_lines, tail, canvases, rendered>>

obj_vars == <<alive, _text, w_text, _widgets, align, wrap, fmt_call>>

render_vars == <<pc, size, lines, li, wit, top, n_lines, tail, canvases, rendered>>

-----------------------------------------------------------------------------
(* Bounds and input sets *)

\* longest template (in elements: characters and replacement fields)
MaxLen == 3

\* most replacement fields in a template passed to the constructor / set_text
\* in the specification SpecApi
MaxFields == 2

\* widest size render is called with
MaxWidth == 2

HeadByte == "H"

ContByte == "C"

Newline == "N"

Space == " "

\* characters of template text; HeadByte and ContByte are there because nothing in
\* the code keeps a caller from passing them in
TextChars == {"a", Space, Newline, HeadByte, ContByte}

\* positional widgets a template may refer to: {0}, {1}
Refs == {0, 1}

\* how many positional widgets a call passes
ArgCounts == {1, 2}

Aligns == {"left", "center", "right"}

Wraps == {"space", "any", "clip"}

\* urwid.Text configurations; a clipped line under another alignment than
\* "left" is left out
Configs == {c \in [align : Aligns, wrap : Wraps] : c.wrap = "clip" => c.align = "left"}

Lit(c) == [kind |-> "lit", ch |-> c, ref |-> 0, spec |-> <<>>]

Field(r, s) == [kind |-> "field", ch |-> "", ref |-> r, spec |-> s]

\* all sequences over S of length 0..n
SeqUpTo(S, n) == UNION {[1..k -> S] : k \in 0..n}

\* format specs that are widths 2 and 3
GoodSpecs == {<<"2">>, <<"3">>}

\* format specs of the first widget: missing, zero, negative, positive
ApiSpecs == {<<>>, <<"0">>, <<"-", "1">>, <<"2">>}

\* urwid.Text configurations of the API specification: the constructor's
\* defaults, and clipping
ApiConfigs == {c \in Configs : c.align = "left" /\ c.wrap \in {"space", "clip"}}

\* templates the render specification constructs the widget with
Templates == SeqUpTo({Lit(c) : c \in TextChars} \cup {Field(r, s) : r \in Refs, s \in GoodSpecs}, MaxLen)

\* templates of the API specification: replacement fields only, {0:...} and
\* {1:x}, a second widget with a spec that is no number
ApiTemplates == SeqUpTo({Field(0, s) : s \in ApiSpecs} \cup {Field(1, <<"x">>)}, MaxFields)

-----------------------------------------------------------------------------
(* Exceptions *)

NoErr == [type |-> "none", field |-> -1]

Raise(t) == [type |-> t, field |-> -1]

-----------------------------------------------------------------------------
(* int(spec), for the characters a spec is made of here *)

Digits == {"0", "1", "2", "3"}

DigitVal(c) == CASE c = "0" -> 0 [] c = "1" -> 1 [] c = "2" -> 2 [] c = "3" -> 3

AllDigits(s) == Len(s) > 0 /\ \A i \in 1..Len(s) : s[i] \in Digits

RECURSIVE DecVal(_)
DecVal(s) == IF s = <<>> THEN 0 ELSE 10 * DecVal(SubSeq(s, 1, Len(s) - 1)) + DigitVal(s[Len(s)])

\* int(spec): [ok, val]; not ok is ValueError
ParseInt(s) ==
    IF Len(s) > 0 /\ s[1] = "-"
    THEN IF AllDigits(Tail(s)) THEN [ok |-> TRUE, val |-> 0 - DecVal(Tail(s))]
         ELSE [ok |-> FALSE, val |-> 0]
    ELSE IF AllDigits(s) THEN [ok |-> TRUE, val |-> DecVal(s)]
         ELSE [ok |-> FALSE, val |-> 0]

-----------------------------------------------------------------------------
(* TextEmbed._FormatWidget.__format__ and TextEmbed._format *)

Placeholder(maxcols) == <<HeadByte>> \o [j \in 1..(maxcols - 1) |-> ContByte]

\* __format__ with `assert maxcols >= 0`
FormatAcceptingZero(widget, widget_list, spec) ==
    LET p == ParseInt(spec) IN
    IF ~p.ok \/ ~(p.val >= 0)
    THEN [err |-> [type |-> "ValueError", field |-> Len(widget_list)],
          widget_list |-> widget_list, out |-> <<>>]
    ELSE [err |-> NoErr,
          widget_list |-> Append(widget_list, [maxcols |-> p.val, widget |-> widget]),
          out |-> Placeholder(p.val)]

\* widget: the wrapped widget (self._w), named by its position among the
\* arguments; widget_list: self._widget_list, the records so far
__format__(widget, widget_list, spec) ==
    LET p == ParseInt(spec) IN
    IF ~p.ok \/ ~(p.val > 0)
    THEN [err |-> [type |-> "ValueError", field |-> Len(widget_list)],
          widget_list |-> widget_list, out |-> <<>>]
    ELSE [err |-> NoErr,
          widget_list |-> Append(widget_list, [maxcols |-> p.val, widget |-> widget]),
          out |-> Placeholder(p.val)]

\* args[ref] that hands out the last argument for an index past the end
GetArgLenient(nargs, ref) == [found |-> TRUE, widget |-> IF ref < nargs THEN ref ELSE nargs - 1]

\* args[ref] of str.format: IndexError if there is no such argument
GetArg(nargs, ref) == [found |-> ref < nargs, widget |-> ref]

\* text.format(*args) from element i on; out and widgets are what the
\* elements before i produced
RECURSIVE FormatFrom(_, _, _, _, _)
FormatFrom(text, nargs, i, out, widgets) ==
    IF i > Len(text) THEN [err |-> NoErr, text |-> out, widgets |-> widgets]
    ELSE LET e == text[i] IN
         IF e.kind = "lit" THEN FormatFrom(text, nargs, i + 1, Append(out, e.ch), widgets)
         ELSE IF ~GetArg(nargs, e.ref).found
              THEN [err |-> Raise("IndexError"), text |-> <<>>, widgets |-> <<>>]
              ELSE LET r == __format__(GetArg(nargs, e.ref).widget, widgets, e.spec) IN
                   IF r.err.type # "none"
                   THEN [err |-> r.err, text |-> <<>>, widgets |-> <<>>]
                   ELSE FormatFrom(text, nargs, i + 1, out \o r.out, r.widget_list)

_format(text, nargs) == FormatFrom(text, nargs, 1, <<>>, <<>>)

-----------------------------------------------------------------------------
(* urwid.Text: the layout of a text (StandardTextLayout) and the decoded    *)
(* lines of its canvas.  Offsets are 1-based; a line is [s, e, hint]: the   *)
(* characters s..e-1 and, if hint > 0, the offset of the space or line feed *)
(* removed after it.                                                        *)

Seg(s, e, h) == [s |-> s, e |-> e, hint |-> h]

\* offset of the first line feed at or after p, Len(text) + 1 if none
NextCr(text, p) ==
    IF \E i \in p..Len(text) : text[i] = Newline
    THEN CHOOSE i \in p..Len(text) : text[i] = Newline /\ \A j \in p..(i - 1) : text[j] # Newline
    ELSE Len(text) + 1

\* offset of the last space in p..pos-1, 0 if none
PrevSpace(text, p, pos) ==
    IF \E i \in p..(pos - 1) : text[i] = Space
    THEN CHOOSE i \in p..(pos - 1) : text[i] = Space /\ \A j \in (i + 1)..(pos - 1) : text[j] # Space
    ELSE 0

\* StandardTextLayout.calculate_text_segments from offset p on; b holds the
\* lines found so far
RECURSIVE Segments(_, _, _, _, _)
Segments(text, width, mode, p, b) ==
    IF p > Len(text) + 1 THEN b
    ELSE
    LET n_cr == NextCr(text, p)
        sc == n_cr - p
        pos == p + width
    IN
    IF mode = "clip" THEN Segments(text, width, mode, n_cr + 1, Append(b, Seg(p, n_cr, 0)))
    ELSE IF sc = 0 THEN Segments(text, width, mode, n_cr + 1, Append(b, Seg(p, p, n_cr)))
    ELSE IF sc <= width THEN Segments(text, width, mode, n_cr + 1, Append(b, Seg(p, n_cr, n_cr)))
    ELSE IF mode = "any" THEN Segments(text, width, mode, pos, Append(b, Seg(p, pos, 0)))
    ELSE IF text[pos] = Space THEN Segments(text, width, mode, pos + 1, Append(b, Seg(p, pos, pos)))
    ELSE
    LET prev == PrevSpace(text, p, pos) IN
    IF prev > 0 THEN Segments(text, width, mode, prev + 1, Append(b, Seg(p, prev, prev)))
    ELSE
    \* no space to break at: pull the word up to the line before if that
    \* ended at a removed space and has room, else break the word
    IF /\ Len(b) > 0
       /\ b[Len(b)].hint > 0
       /\ b[Len(b)].e - b[Len(b)].s < width
       /\ text[b[Len(b)].hint] = Space
    THEN LET p2 == b[Len(b)].s
             pos2 == p2 + width
             b2 == SubSeq(b, 1, Len(b) - 1)
         IN
         IF pos2 <= Len(text) /\ text[pos2] \in {Space, Newline}
         THEN Segments(text, width, mode, pos2 + 1, Append(b2, Seg(p2, pos2, pos2)))
         ELSE Segments(text, width, mode, pos2, Append(b2, Seg(p2, pos2, 0)))
    ELSE Segments(text, width, mode, pos, Append(b, Seg(p, pos, 0)))

Spaces(n) == [j \in 1..n |-> Space]

Min(a, b) == IF a < b THEN a ELSE b

Max(a, b) == IF a > b THEN a ELSE b

\* one line of the text canvas: align_layout's padding on the left, the
\* characters (trimmed to the width), TextCanvas' padding on the right
CanvasLine(text, width, al, seg) ==
    LET shown == SubSeq(text, seg.s, Min(seg.e, seg.s + width) - 1)
        sc == Len(shown)
        left == IF sc = width \/ al = "left" THEN 0
                ELSE IF al = "right" THEN width - sc
                ELSE (width - sc + 1) \div 2
    IN Spaces(left) \o shown \o Spaces(width - sc - left)

\* [line.decode() for line in urwid.Text(text, align, wrap).render((width,)).text]
Layout(text, width, al, mode) ==
    LET segs == Segments(text, width, mode, 1, <<>>) IN
    [i \in 1..Len(segs) |-> CanvasLine(text, width, al, segs[i])]

-----------------------------------------------------------------------------
(* Canvases.  A cell is one display column; a one-row canvas is a sequence  *)
(* of cells, a canvas a sequence of rows.                                   *)

TextCell(c) == [kind |-> "t", ch |-> c, widget |-> -1, col |-> -1]

WidgetCell(w, j) == [kind |-> "w", ch |-> "", widget |-> w, col |-> j]

Blanks(n) == [j \in 1..n |-> TextCell(Space)]

\* urwid.Text(string).render((len(string),)): one row
TextRow(string) == [j \in 1..Len(string) |-> TextCell(string[j])]

\* widget.render((maxcols, 1)): one row, columns 0..maxcols-1 of the widget
WidgetRender(widget, maxcols) == [j \in 1..maxcols |-> WidgetCell(widget, j - 1)]

\* CompositeCanvas.pad_trim_left_right on a one-row canvas: a value > 0 pads,
\* a value < 0 trims; trimming to no columns is an AssertionError
\* (shards_trim_sides)
PadTrimLeftRight(canv, left, right) ==
    LET trim_left == Max(0, 0 - left)
        cols == Len(canv) - trim_left - Max(0, 0 - right)
        trimming == left < 0 \/ right < 0
    IN IF trimming /\ cols <= 0 THEN [ok |-> FALSE, canv |-> <<>>]
       ELSE [ok |-> TRUE,
             canv |-> Blanks(Max(0, left))
                      \o (IF trimming THEN SubSeq(canv, trim_left + 1, trim_left + cols) ELSE canv)
                      \o Blanks(Max(0, right))]

\* urwid.CanvasJoin of one-row canvases l[i] = [canv, cols]: every canvas is
\* padded or trimmed on the right to its cols, then they are set side by side
RECURSIVE CanvasJoin(_)
CanvasJoin(l) ==
    IF l = <<>> THEN [ok |-> TRUE, canv |-> <<>>]
    ELSE LET pad_right == l[1].cols - Len(l[1].canv)
             first == IF pad_right # 0 THEN PadTrimLeftRight(l[1].canv, 0, pad_right)
                      ELSE [ok |-> TRUE, canv |-> l[1].canv]
             rest == CanvasJoin(Tail(l))
         IN IF first.ok /\ rest.ok THEN [ok |-> TRUE, canv |-> first.canv \o rest.canv]
            ELSE [ok |-> FALSE, canv |-> <<>>]

\* urwid.CanvasCombine: the rows of the canvases, one below the other
RECURSIVE CanvasCombine(_)
CanvasCombine(l) == IF l = <<>> THEN <<>> ELSE l[1].rows \o CanvasCombine(Tail(l))

-----------------------------------------------------------------------------
(* TextEmbed._embed *)

\* how many of line's characters from offset i on are c
RECURSIVE RunLen(_, _, _)
RunLen(line, i, c) == IF i <= Len(line) /\ line[i] = c THEN 1 + RunLen(line, i + 1, c) ELSE 0

\* _placeholder.search(line)
HasPlaceholder(line) == \E i \in 1..Len(line) : line[i] = HeadByte

\* _placeholder.split(line) without the empty strings: the text runs and
\* the placeholder runs "\0\1*" of the line, in order
RECURSIVE PlaceholderSplit(_)
PlaceholderSplit(line) ==
    IF line = <<>> THEN <<>>
    ELSE LET n == IF line[1] = HeadByte THEN 1 + RunLen(line, 2, ContByte)
                  ELSE IF HasPlaceholder(line)
                       THEN (CHOOSE i \in 1..Len(line) : line[i] = HeadByte /\ \A j \in 1..(i - 1) : line[j] # HeadByte) - 1
                       ELSE Len(line)
         IN <<SubSeq(line, 1, n)>> \o PlaceholderSplit(SubSeq(line, n + 1, Len(line)))

\* _placeholder_tail.split(line): no match leaves [line]; a match gives
\* ['', padding, tail_string, line]
PlaceholderTailSplit(line) ==
    LET p == RunLen(line, 1, Space)
        k == RunLen(line, p + 1, ContByte)
    IN [match |-> k > 0, padding |-> p, tail_string |-> k,
        line |-> SubSeq(line, p + k + 1, Len(line))]

None == [set |-> FALSE, cols |-> 0, canv |-> <<>>, rec |-> 0]

\* a tail that holds a second render of the widget, as wide as the rest
TailOfRerender(cols, canv, rec) ==
    [set |-> TRUE, cols |-> cols, canv |-> WidgetRender(canv[1].widget, cols), rec |-> rec]

\* the tuple (cols, canv); rec names the canvas object: the record it was
\* rendered for
TailOf(cols, canv, rec) == [set |-> TRUE, cols |-> cols, canv |-> canv, rec |-> rec]

\* next(...) of an iterator made anew of the list for every line
NextRecordRestart(widgets, wi) ==
    IF widgets = <<>> THEN [stop |-> TRUE, rec |-> wi, maxcols |-> 0, widget |-> -1]
    ELSE [stop |-> FALSE, rec |-> 1, maxcols |-> widgets[1].maxcols, widget |-> widgets[1].widget]

\* next(...) that hands out the last record again once the records are used up
NextRecordAgain(widgets, wi) ==
    IF widgets = <<>> THEN [stop |-> TRUE, rec |-> wi, maxcols |-> 0, widget |-> -1]
    ELSE LET k == Min(wi, Len(widgets)) IN
         [stop |-> FALSE, rec |-> k, maxcols |-> widgets[k].maxcols, widget |-> widgets[k].widget]

\* next(widgets_iter), the iterator being at wi: StopIteration after the
\* last record
NextRecord(widgets, wi) ==
    IF wi > Len(widgets) THEN [stop |-> TRUE, rec |-> wi, maxcols |-> 0, widget |-> -1]
    ELSE [stop |-> FALSE, rec |-> wi, maxcols |-> widgets[wi].maxcols, widget |-> widgets[wi].widget]

\* the loop over _placeholder.split(line), from run i on.  st = [err, wit,
\* tail, canvases, rendered]; ln is the line's number, kept in the log only
RECURSIVE EmbedRuns(_, _, _, _, _)
EmbedRuns(runs, i, widgets, ln, st) ==
    IF i > Len(runs) THEN st
    ELSE LET string == runs[i] IN
         IF string[1] = HeadByte
         THEN IF NextRecord(widgets, st.wit).stop
              THEN [st EXCEPT !.err = Raise("StopIteration")]
              ELSE LET nxt == NextRecord(widgets, st.wit)
                       maxcols == nxt.maxcols
                       widget == nxt.widget
                       canv == WidgetRender(widget, maxcols)
                   IN EmbedRuns(runs, i + 1, widgets, ln,
                        [err |-> NoErr,
                         wit |-> st.wit + 1,
                         tail |-> IF Len(string) # maxcols
                                  THEN TailOf(maxcols - Len(string), canv, nxt.rec)
                                  ELSE st.tail,
                         canvases |-> Append(st.canvases, [canv |-> canv, cols |-> Len(string)]),
                         rendered |-> Append(st.rendered,
                                        [rec |-> nxt.rec, widget |-> widget, maxcols |-> maxcols,
                                         ln |-> ln, run |-> Len(string)])])
         ELSE EmbedRuns(runs, i + 1, widgets, ln,
                [st EXCEPT !.canvases = Append(@, [canv |-> TextRow(string), cols |-> Len(string)])])

\* _embed(line, widgets, focus, tail), widgets being the iterator at wi:
\* [err, wit, tail, canv, rendered]
_embed(line, widgets, wi, tl, ln, log) ==
    LET sp == PlaceholderTailSplit(line)
        pt == PadTrimLeftRight(tl.canv, tl.cols - Len(tl.canv), sp.tail_string - tl.cols)
        head == (IF sp.padding > 0 THEN <<[canv |-> TextRow(Spaces(sp.padding)), cols |-> sp.padding]>>
                 ELSE <<>>)
                \o <<[canv |-> pt.canv, cols |-> tl.cols]>>
        fail(t) == [err |-> Raise(t), wit |-> wi, tail |-> tl, canv |-> <<>>, rendered |-> log]
        done(st) == LET j == CanvasJoin(st.canvases) IN
                    IF st.err.type # "none" THEN fail(st.err.type)
                    ELSE IF ~j.ok THEN fail("AssertionError")
                    ELSE [err |-> NoErr, wit |-> st.wit, tail |-> st.tail, canv |-> j.canv,
                          rendered |-> st.rendered]
        start(cs, t) == [err |-> NoErr, wit |-> wi, tail |-> t, canvases |-> cs, rendered |-> log]
    IN
    IF tl.set
    THEN IF ~sp.match THEN fail("ValueError")
         ELSE IF ~pt.ok THEN fail("AssertionError")
         ELSE IF sp.line = <<>>
              THEN done(start(head, IF sp.tail_string < tl.cols
                                    THEN TailOf(tl.cols - sp.tail_string, tl.canv, tl.rec)
                                    ELSE None))
              ELSE done(EmbedRuns(PlaceholderSplit(sp.line), 1, widgets, ln, start(head, None)))
    ELSE done(EmbedRuns(PlaceholderSplit(line), 1, widgets, ln, start(<<>>, None)))

-----------------------------------------------------------------------------
(* The object: TextEmbed.__init__, set_text, text *)

\* render's locals before render's first call
RenderIdle ==
    /\ pc = "idle" /\ size = 0 /\ lines = <<>> /\ li = 0 /\ wit = 1 /\ top = 0
    /\ n_lines = 0 /\ tail = None /\ canvases = <<>> /\ rendered = <<>>

\* the same as the next state
RenderIdleNext ==
    /\ pc' = "idle" /\ size' = 0 /\ lines' = <<>> /\ li' = 0 /\ wit' = 1 /\ top' = 0
    /\ n_lines' = 0 /\ tail' = None /\ canvases' = <<>> /\ rendered' = <<>>

\* TextEmbed(text, *args, align=al, wrap=wr) has returned
Constructed(text, nargs, al, wr) ==
    LET f == _format(text, nargs) IN
    /\ f.err = NoErr
    /\ alive = TRUE
    /\ _text = text
    /\ w_text = f.text
    /\ _widgets = f.widgets
    /\ align = al
    /\ wrap = wr
    /\ fmt_call = [op |-> "__init__", text |-> text, nargs |-> nargs, err |-> NoErr]
    /\ err = NoErr

\* TextEmbed(text, *args, align=al, wrap=wr): an exception of _format leaves
\* no object
__init__(text, nargs, al, wr) ==
    LET f == _format(text, nargs) IN
    /\ ~alive
    /\ pc = "idle"
    /\ fmt_call' = [op |-> "__init__", text |-> text, nargs |-> nargs, err |-> f.err]
    /\ err' = f.err
    /\ IF f.err = NoErr
       THEN /\ alive' = TRUE
            /\ _text' = text
            /\ w_text' = f.text
            /\ _widgets' = f.widgets
            /\ align' = al
            /\ wrap' = wr
       ELSE UNCHANGED <<alive, _text, w_text, _widgets, align, wrap>>
    /\ UNCHANGED render_vars

\* set_text(text, *args), called while no render is running
set_text(text, nargs) ==
    LET f == _format(text, nargs) IN
    /\ alive
    /\ pc = "idle"
    /\ fmt_call' = [op |-> "set_text", text |-> text, nargs |-> nargs, err |-> f.err]
    /\ _text' = text
    /\ err' = f.err
    /\ IF f.err = NoErr
       THEN w_text' = f.text /\ _widgets' = f.widgets
       ELSE UNCHANGED <<w_text, _widgets>>
    /\ UNCHANGED <<alive, align, wrap>>
    /\ UNCHANGED render_vars

\* the property text
text == _text

-----------------------------------------------------------------------------
(* TextEmbed.render, one step per decoded line *)

\* text_canv: the rows of the text canvas
text_canv == [i \in 1..Len(lines) |-> TextRow(lines[i])]

\* partial_canv.trim(0, n): the rows from the top of the text canvas
TrimFromZero(tp, n) == [kind |-> "trim", top |-> tp, ln |-> 0, rows |-> SubSeq(text_canv, 1, n)]

\* partial_canv.trim(tp, n) of a copy of text_canv, as an entry of canvases
Trim(tp, n) == [kind |-> "trim", top |-> tp, ln |-> 0, rows |-> SubSeq(text_canv, tp + 1, tp + n)]

\* `if n_lines:` append the trimmed copy
Flush(cs, tp, n) == IF n # 0 THEN Append(cs, Trim(tp, n)) ELSE cs

\* the canvas _embed made of line ln, as an entry of canvases
Embedded(kind, tp, ln, canv) == [kind |-> kind, top |-> tp, ln |-> ln, rows |-> <<canv>>]

\* render(size) up to the loop
RenderBegin(maxcol) ==
    /\ alive
    /\ pc = "idle"
    /\ pc' = "for"
    /\ size' = maxcol
    /\ lines' = Layout(w_text, maxcol, align, wrap)
    /\ li' = 0
    /\ wit' = 1
    /\ top' = 0
    /\ n_lines' = 0
    /\ tail' = None
    /\ canvases' = <<>>
    /\ rendered' = <<>>
    /\ err' = NoErr
    /\ UNCHANGED obj_vars

\* for line in text: a line without a placeholder
RenderTextLine ==
    /\ pc = "for"
    /\ li < Len(lines)
    /\ ~HasPlaceholder(lines[li + 1])
    /\ li' = li + 1
    /\ n_lines' = n_lines + 1
    /\ UNCHANGED <<obj_vars, err, pc, size, lines, wit, top, tail, canvases, rendered>>

\* for line in text: a line with a placeholder
RenderPlaceholderLine ==
    /\ pc = "for"
    /\ li < Len(lines)
    /\ HasPlaceholder(lines[li + 1])
    /\ LET flushed == Flush(canvases, top, n_lines)
           top1 == IF n_lines # 0 THEN top + n_lines ELSE top
           r == _embed(lines[li + 1], _widgets, wit, None, li + 1, rendered)
       IN /\ li' = li + 1
          /\ IF r.err # NoErr
             THEN /\ pc' = "raised"
                  /\ err' = r.err
                  /\ canvases' = flushed
                  /\ top' = top1
                  /\ UNCHANGED <<n_lines, tail, wit, rendered>>
             ELSE /\ pc' = IF r.tail.set THEN "while" ELSE "for"
                  /\ canvases' = Append(flushed, Embedded("embed", top1, li + 1, r.canv))
                  /\ n_lines' = 0
                  /\ top' = top1 + 1
                  /\ tail' = r.tail
                  /\ wit' = r.wit
                  /\ rendered' = r.rendered
                  /\ UNCHANGED err
    /\ UNCHANGED <<obj_vars, size, lines>>

\* while tail: the next line, handed to _embed with the tail
RenderTailLine ==
    /\ pc = "while"
    /\ li < Len(lines)
    /\ LET r == _embed(lines[li + 1], _widgets, wit, tail, li + 1, rendered)
       IN /\ li' = li + 1
          /\ IF r.err # NoErr
             THEN /\ pc' = "raised"
                  /\ err' = r.err
                  /\ UNCHANGED <<canvases, top, tail, wit, rendered>>
             ELSE /\ pc' = IF r.tail.set THEN "while" ELSE "for"
                  /\ canvases' = Append(canvases, Embedded("tail", top, li + 1, r.canv))
                  /\ top' = top + 1
                  /\ tail' = r.tail
                  /\ wit' = r.wit
                  /\ rendered' = r.rendered
                  /\ UNCHANGED err
    /\ UNCHANGED <<obj_vars, size, lines, n_lines>>

\* while tail: next(text) raises StopIteration, break
RenderTailEnd ==
    /\ pc = "while"
    /\ li = Len(lines)
    /\ pc' = "for"
    /\ UNCHANGED <<obj_vars, err, size, lines, li, wit, top, n_lines, tail, canvases, rendered>>

\* render without the flush after the loop
RenderReturnNoFlush ==
    /\ pc = "for"
    /\ li = Len(lines)
    /\ pc' = "done"
    /\ UNCHANGED <<obj_vars, err, size, lines, li, wit, top, n_lines, tail, canvases, rendered>>

\* after the loop: the last batch, and return urwid.CanvasCombine(canvases)
RenderReturn ==
    /\ pc = "for"
    /\ li = Len(lines)
    /\ pc' = "done"
    /\ canvases' = Flush(canvases, top, n_lines)
    /\ UNCHANGED <<obj_vars, err, size, lines, li, wit, top, n_lines, tail, rendered>>

\* what render returned
Returned == CanvasCombine(canvases)

\* render has returned or raised: its frame and its locals are gone
RenderExit ==
    /\ pc \in {"done", "raised"}
    /\ RenderIdleNext
    /\ UNCHANGED <<obj_vars, err>>

Render ==
    \/ \E maxcol \in 1..MaxWidth : RenderBegin(maxcol)
    \/ RenderTextLine
    \/ RenderPlaceholderLine
    \/ RenderTailLine
    \/ RenderTailEnd
    \/ RenderReturn
    \/ RenderExit

-----------------------------------------------------------------------------
(* Spec: a widget constructed with any template of Templates and both       *)
(* widgets, rendered again and again.                                       *)

Init ==
    /\ \E t \in Templates, c \in Configs : Constructed(t, Cardinality(Refs), c.align, c.wrap)
    /\ RenderIdle

Next == Render

Spec == Init /\ [][Next]_vars

(* SpecApi: the constructor, set_text and render called in any order with   *)
(* the templates of ApiTemplates.                                           *)

InitApi ==
    /\ alive = FALSE
    /\ _text = <<>>
    /\ w_text = <<>>
    /\ _widgets = <<>>
    /\ align = "left"
    /\ wrap = "space"
    /\ fmt_call = [op |-> "none", text |-> <<>>, nargs |-> 0, err |-> NoErr]
    /\ err = NoErr
    /\ RenderIdle

NextApi ==
    \/ \E t \in ApiTemplates, n \in ArgCounts, c \in ApiConfigs : __init__(t, n, c.align, c.wrap)
    \/ \E t \in ApiTemplates, n \in ArgCounts : set_text(t, n)
    \/ Render

SpecApi == InitApi /\ [][NextApi]_vars

-----------------------------------------------------------------------------
(* Properties of render (Spec) *)

\* the template text holds no reserved byte (the invariant of placeholder
\* sequences): every marker byte of w_text was put there by _format
NoReservedBytes ==
    \A i \in 1..Len(_text) : _text[i].kind = "lit" => _text[i].ch \notin {HeadByte, ContByte}

\* the template holds no replacement field and no head byte
ZeroMarkers == \A i \in 1..Len(_text) : _text[i].kind = "lit" /\ _text[i].ch # HeadByte

HeadCount(string) == Cardinality({c \in 1..Len(string) : string[c] = HeadByte})

\* for every head byte of the lines i.. in reading order, the number of its line
RECURSIVE HeadLines(_, _)
HeadLines(ls, i) ==
    IF i > Len(ls) THEN <<>>
    ELSE [j \in 1..HeadCount(ls[i]) |-> i] \o HeadLines(ls, i + 1)

\* the records of a template's replacement fields, in the template's order
RECURSIVE FieldsOf(_)
FieldsOf(t) ==
    IF t = <<>> THEN <<>>
    ELSE (IF t[1].kind = "field"
          THEN <<[maxcols |-> ParseInt(t[1].spec).val, widget |-> t[1].ref]>>
          ELSE <<>>) \o FieldsOf(Tail(t))

\* rows of the entries of cs before entry i
RECURSIVE RowsBefore(_, _)
RowsBefore(cs, i) == IF i <= 1 THEN 0 ELSE RowsBefore(cs, i - 1) + Len(cs[i - 1].rows)

LastEntry == canvases[Len(canvases)]

\* line ln ends with a placeholder run that is shorter than its record's width
SplitAtEnd(ln) ==
    \E k \in 1..Len(rendered) :
        /\ rendered[k].ln = ln
        /\ rendered[k].run < rendered[k].maxcols
        /\ rendered[k].run <= Len(lines[ln])
        /\ SubSeq(lines[ln], Len(lines[ln]) - rendered[k].run + 1, Len(lines[ln]))
             = Placeholder(rendered[k].run)

\* one step of render over the second line of a split placeholder, and what
\* it has to leave behind
C1_Step(no_tail_at_all) ==
    (pc = "while" /\ li < Len(lines) /\ li' = li + 1 /\ NoReservedBytes /\ rendered # <<>>) =>
    LET e == rendered[Len(rendered)]
        a == e.run
        w == e.maxcols
        first == lines[li]
        sp == PlaceholderTailSplit(lines[li + 1])
        p == sp.padding
        unsplit == [j \in 1..w |-> WidgetCell(e.widget, j - 1)]
        row1 == LastEntry.rows[1]
    IN (/\ e.ln = li
        /\ 0 < a /\ a < w
        /\ w = _widgets[e.rec].maxcols
        /\ SubSeq(first, Len(first) - a + 1, Len(first)) = Placeholder(a)
        /\ sp.match
        /\ sp.tail_string = w - a)
       => /\ tail.set /\ tail.cols = w - a /\ tail.canv = unsplit
          /\ SubSeq(row1, Len(row1) - a + 1, Len(row1)) = SubSeq(unsplit, 1, a)
          /\ pc' \in {"for", "while"}
          /\ LET row2 == canvases'[Len(canvases')].rows[1] IN
             /\ SubSeq(row2, 1, p + w - a) = Blanks(p) \o SubSeq(unsplit, a + 1, w)
             /\ SubSeq(row1, Len(row1) - a + 1, Len(row1)) \o SubSeq(row2, p + 1, p + w - a) = unsplit
          /\ Cardinality({k \in 1..Len(rendered') : rendered'[k].rec = e.rec}) = 1
          /\ IF no_tail_at_all THEN ~tail'.set ELSE ~(tail'.set /\ tail'.rec = e.rec)

(* C1, as amended.  When a placeholder of declared width w is laid out as a  *)
(* head run of a columns at the end of one line and a continuation run of    *)
(* w - a columns at the start of the next (after padding spaces, if any),    *)
(* 0 < a < w, render renders the widget once at width w, the first line's    *)
(* canvas ends with columns [0, a) of that render, the tail carried between  *)
(* the lines has w - a columns left and holds that render, the next line's   *)
(* canvas starts (after the padding) with columns [a, w) of it, the two      *)
(* slices side by side are the unsplit render, and after the second line no  *)
(* tail of that placeholder is pending: a tail pending then belongs to a     *)
(* later placeholder, split at the end of the second line.                   *)
C1_SplitPlaceholder == [][C1_Step(FALSE)]_vars

(* C1 as stated: ... and no tail at all is pending after the second line.    *)
C1_SplitPlaceholderNoTail == [][C1_Step(TRUE)]_vars

\* the second line of a split placeholder has been embedded
C1_Witness ==
    /\ pc \in {"for", "while"}
    /\ li >= 2
    /\ NoReservedBytes
    /\ canvases # <<>>
    /\ LastEntry.kind = "tail"
    /\ LastEntry.ln = li
    /\ \E k \in 1..Len(rendered) :
          /\ rendered[k].ln = li - 1
          /\ rendered[k].run < rendered[k].maxcols
          /\ SplitAtEnd(li - 1)
          /\ PlaceholderTailSplit(lines[li]).tail_string = rendered[k].maxcols - rendered[k].run
          /\ ~(tail.set /\ tail.rec = rendered[k].rec)

(* C2.  A truncated tail is never an error: when a tail is pending under    *)
(* wrap "clip" and the next decoded line does not start with (padding and)  *)
(* a continuation run, the remainder is dropped and render does not raise.  *)
C2_TruncatedTailDropped ==
    (pc = "raised" /\ wrap = "clip" /\ NoReservedBytes)
    => ~(tail.set /\ ~PlaceholderTailSplit(lines[li]).match)

\* the part of line li that _embed hands to the loop over the runs
LoopPart ==
    IF tail.set THEN PlaceholderTailSplit(lines[li]).line ELSE lines[li]

\* render has raised in an _embed call that got to a head run with every
\* record used up
Exhausted ==
    /\ pc = "raised"
    /\ tail.set => /\ PlaceholderTailSplit(lines[li]).match
                   /\ PadTrimLeftRight(tail.canv, tail.cols - Len(tail.canv),
                                       PlaceholderTailSplit(lines[li]).tail_string - tail.cols).ok
    /\ HeadCount(LoopPart) > Len(_widgets) - (wit - 1)

(* C3.  When _embed has to resolve a head run and every record has been     *)
(* consumed, render raises StopIteration (the LayoutError) and returns no   *)
(* canvas; a render that returns has resolved every head byte of every line *)
(* with a record of its own, in order, and shows no head byte as text.      *)
C3_MismatchRaises ==
    /\ Exhausted => err.type = "StopIteration"
    /\ (pc = "raised" /\ err.type = "StopIteration") => Exhausted
    /\ HeadCount(w_text) > Len(_widgets) /\ wrap # "clip" => pc # "done"
    /\ pc = "done" =>
         LET hl == HeadLines(lines, 1) IN
         /\ Len(rendered) = Len(hl)
         /\ Len(rendered) <= Len(_widgets)
         /\ \A k \in 1..Len(rendered) : rendered[k].rec = k /\ rendered[k].ln = hl[k]
         /\ \A i \in 1..Len(Returned) : \A j \in 1..Len(Returned[i]) :
                Returned[i][j] # TextCell(HeadByte)

\* a template with a head byte of its own has been rendered up to the run
\* no record is left for
C3_Witness ==
    /\ pc = "raised"
    /\ err.type = "StopIteration"
    /\ HeadCount(w_text) > Len(_widgets)
    /\ \E i \in 1..Len(_text) : _text[i].kind = "lit" /\ _text[i].ch = HeadByte

(* C5.  A template without embedding markers renders to the rows of the     *)
(* plain text canvas, all of them in order, as one trim from row 0, under   *)
(* every size, alignment and wrap mode.                                     *)
C5_PlainTextUnchanged ==
    ZeroMarkers =>
        /\ pc \notin {"raised", "while"}
        /\ rendered = <<>>
        /\ pc = "done" => /\ Returned = [i \in 1..Len(lines) |-> TextRow(lines[i])]
                          /\ Len(canvases) = 1
                          /\ canvases[1].kind = "trim"
                          /\ canvases[1].top = 0
                          /\ Len(canvases[1].rows) = Len(lines)

C5_Witness == pc = "done" /\ ZeroMarkers /\ Len(lines) >= 2 /\ Len(_text) >= 2

(* C6.  For a template without reserved bytes and a layout that truncates   *)
(* nothing (wrap "space" or "any"), the records are the template's fields   *)
(* in order, render does not raise, the k-th head byte in reading order is  *)
(* rendered with the k-th record's widget at (the k-th record's width, 1),  *)
(* every record is consumed exactly once and a tail consumes none.          *)
C6_OrderRoundTrip ==
    (alive /\ NoReservedBytes /\ wrap # "clip") =>
        /\ _widgets = FieldsOf(_text)
        /\ pc # "raised"
        /\ pc \in {"for", "while", "done"} =>
             LET hl == HeadLines(lines, 1) IN
             /\ wit = Len(rendered) + 1
             /\ Len(hl) = Len(_widgets)
             /\ Len(rendered) = Len(HeadLines(SubSeq(lines, 1, li), 1))
             /\ \A k \in 1..Len(rendered) :
                   /\ rendered[k].rec = k
                   /\ rendered[k].widget = _widgets[k].widget
                   /\ rendered[k].maxcols = _widgets[k].maxcols
                   /\ rendered[k].ln = hl[k]
        /\ pc = "done" => Len(rendered) = Len(_widgets)

\* two different widgets embedded, one of them over a line end
C6_Witness ==
    /\ pc = "done"
    /\ NoReservedBytes
    /\ wrap # "clip"
    /\ Len(_widgets) = 2
    /\ _widgets[1].widget # _widgets[2].widget
    /\ _widgets[1].maxcols # _widgets[2].maxcols
    /\ \E i \in 1..Len(canvases) : canvases[i].kind = "tail"

\* one step of render over a line with a pending tail
C8_Step ==
    (pc = "while" /\ li < Len(lines) /\ li' = li + 1 /\ pc' \in {"for", "while"}) =>
    LET line == lines[li + 1]
        sp == PlaceholderTailSplit(line)
        k == sp.tail_string
        r == tail.cols
        w == Len(tail.canv)
        row == canvases'[Len(canvases')].rows[1]
    IN (sp.match /\ 1 <= k /\ k <= r) =>
          /\ Len(row) = Len(line)
          /\ SubSeq(row, 1, sp.padding + k)
               = Blanks(sp.padding) \o SubSeq(tail.canv, w - r + 1, w - r + k)
          /\ k < r => /\ tail' = TailOf(r - k, tail.canv, tail.rec)
                      /\ wit' = wit
                      /\ rendered' = rendered

(* C8.  On every line _embed processes with a pending tail (r columns left  *)
(* of a canvas w wide, a continuation run of k columns, 1 <= k <= r), the   *)
(* line's canvas is as wide as the line and shows, after the padding,       *)
(* columns [w - r, w - r + k) of the widget; when k < r the new tail has    *)
(* r - k columns and nothing else of the line is processed.                 *)
C8_TailSlice == [][C8_Step]_vars

C9_EntryOk(i) ==
    LET e == canvases[i]
        b == RowsBefore(canvases, i)
        n == Len(e.rows)
    IN /\ e.top = b
       /\ IF e.kind = "trim"
          THEN /\ n >= 1
               /\ e.rows = [j \in 1..n |-> TextRow(lines[b + j])]
               /\ \A j \in 1..n : HeadCount(lines[b + j]) = 0
               /\ i > 1 => canvases[i - 1].kind # "trim" /\ ~SplitAtEnd(b)
               /\ i < Len(canvases) => canvases[i + 1].kind = "embed"
          ELSE /\ n = 1
               /\ e.ln = b + 1
               /\ e.kind = "embed" => HeadCount(lines[e.ln]) > 0
               /\ e.kind = "tail" => i > 1 /\ canvases[i - 1].kind \in {"embed", "tail"}
               /\ (i < Len(canvases) /\ SplitAtEnd(e.ln)) => canvases[i + 1].kind = "tail"

(* C9.  Row accounting: at the start of every iteration top + n_lines is    *)
(* the number of lines consumed; every batch of pure-text lines is the trim *)
(* (top, n_lines) of the text canvas and comes before the canvas of the     *)
(* placeholder line after it; the line after a split placeholder goes to    *)
(* the tail procedure and into no batch; what render returns has one row    *)
(* per decoded line, in order.                                              *)
C9_RowAccounting ==
    /\ pc = "for" => top + n_lines = li
    /\ pc = "while" => top = li /\ n_lines = 0
    /\ pc \in {"for", "while", "done"} => \A i \in 1..Len(canvases) : C9_EntryOk(i)
    /\ pc \in {"for", "while"} => RowsBefore(canvases, Len(canvases) + 1) = top
    /\ pc = "done" => /\ Len(Returned) = Len(lines)
                      /\ RowsBefore(canvases, Len(canvases) + 1) = Len(lines)

\* a batch, a placeholder line and a tail line have been put together
C9_Witness ==
    /\ pc = "done"
    /\ \E i, j, k \in 1..Len(canvases) :
          /\ i < j /\ j < k
          /\ canvases[i].kind = "trim"
          /\ canvases[j].kind = "embed"
          /\ canvases[k].kind = "tail"

-----------------------------------------------------------------------------
(* Properties of the constructor and set_text (SpecApi) *)

\* what a format spec says, read off without int(): is it a width, and which
SpecWidth(spec) ==
    CASE spec = <<>> -> [valid |-> FALSE, cols |-> 0]
      [] spec = <<"x">> -> [valid |-> FALSE, cols |-> 0]
      [] spec = <<"0">> -> [valid |-> FALSE, cols |-> 0]
      [] spec = <<"-", "1">> -> [valid |-> FALSE, cols |-> 0]
      [] spec = <<"2">> -> [valid |-> TRUE, cols |-> 2]

RECURSIVE Placeholders(_)
Placeholders(t) ==
    IF t = <<>> THEN <<>>
    ELSE <<HeadByte>> \o [j \in 1..(SpecWidth(t[1].spec).cols - 1) |-> ContByte] \o Placeholders(Tail(t))

SetMin(S) == CHOOSE x \in S : \A y \in S : x <= y

(* C4.  Width validation happens at format time.  A constructor / set_text  *)
(* call whose template has a field with a missing, non-numeric, zero or     *)
(* negative width never succeeds; when the first such field is reached (no  *)
(* field before it refers to a widget that was not passed) the call raises  *)
(* ValueError (the FormatError) naming that field's index, and a failed     *)
(* constructor leaves nothing to render.  When every width is a positive    *)
(* integer and every widget is passed the call succeeds and the text holds, *)
(* per field, one head byte and width - 1 continuation bytes.               *)
C4_WidthValidated ==
    fmt_call.op # "none" =>
    LET t == fmt_call.text
        bad == {i \in 1..Len(t) : ~SpecWidth(t[i].spec).valid}
        missing == {i \in 1..Len(t) : t[i].ref >= fmt_call.nargs}
    IN /\ bad # {} => fmt_call.err # NoErr
       /\ (bad # {} /\ \A i \in missing : i > SetMin(bad))
            => fmt_call.err = [type |-> "ValueError", field |-> SetMin(bad) - 1]
       /\ (fmt_call.err # NoErr /\ fmt_call.op = "__init__") => ~alive /\ pc = "idle"
       /\ (bad = {} /\ missing = {})
            => /\ fmt_call.err = NoErr
               /\ alive
               /\ w_text = Placeholders(t)
               /\ _widgets = [i \in 1..Len(t) |-> [maxcols |-> SpecWidth(t[i].spec).cols,
                                                   widget |-> t[i].ref]]

\* set_text has raised over its second field
C4_Witness ==
    /\ fmt_call.op = "set_text"
    /\ fmt_call.err = [type |-> "ValueError", field |-> 1]
    /\ pc = "idle"

\* set_text was called with 2 replacement fields and 1 widget, and no width
\* of a field of that widget is invalid
TwoMarkersOneWidget ==
    /\ fmt_call.op = "set_text"
    /\ Len(fmt_call.text) = 2
    /\ fmt_call.nargs = 1
    /\ \A i \in 1..2 : fmt_call.text[i].ref = 0 => SpecWidth(fmt_call.text[i].spec).valid

C10_SetTextAtomic ==
    alive => \E n \in ArgCounts :
                 _format(text, n) = [err |-> NoErr, text |-> w_text, widgets |-> _widgets]

====
